---- MODULE Spec2Model ----
(***************************************************************************)
(* A model of the tokio-jsonrpc endpoint: the dispatch engine (do_msg,     *)
(* do_request, do_notification, do_batch), the per-connection pipeline     *)
(* built by endpoint() (map / flatten / buffer_unordered / filter_map /    *)
(* select / send_all) and the Client handle.                               *)
(***************************************************************************)
EXTENDS Integers, Sequences, FiniteSets, TLC

\* ------------------------------------------------------------------ bounds
\* Number of items the inbound stream delivers in one run.
MaxInbound == 2
\* Number of batches the inbound stream delivers in a run of batches only.
MaxBatches == 1
\* Number of Client::notify calls in one run.
MaxNotify == 1
\* Width of the widest batch of the runs of one batch.
MaxWidth == 5

\* ------------------------------------------------------- program constants
\* stream.buffer_unordered(4)
BufferSize == 4
\* channel(32): the client's outbound channel
ClientChannelCap == 32

\* ------------------------------------------------------------ JSON values
\* serde_json Value::Null
Null == "null"
\* Option::None of an Option<Value>
NoneV == "none"
\* Option<Message>::None, the "no message" result of a computation
NoMsg == [type |-> "None"]

\* ---------------------------------------------------------- message model
Request(method, params, id) ==
    [type |-> "Request", method |-> method, params |-> params, id |-> id]

Notification(method, params) ==
    [type |-> "Notification", method |-> method, params |-> params]

RPCError(code, message, data) ==
    [code |-> code, message |-> message, data |-> data]

ResultOk(value) == [ok |-> TRUE, value |-> value]

ResultErr(error) == [ok |-> FALSE, error |-> error]

Response(id, result) == [type |-> "Response", id |-> id, result |-> result]

Batch(items) == [type |-> "Batch", items |-> items]

UnmatchedSub(value) == [type |-> "UnmatchedSub", value |-> value]

\* Message::request: the id is always Value::Null (the TODO of the source)
MessageRequest(method, params) == Request(method, params, Null)

\* Message::notification without the params
MessageNotificationBare(method, params) == Notification(method, NoneV)

\* Message::notification
MessageNotification(method, params) == Notification(method, params)

\* Parsed = Result<Message, Broken>
ParsedOk(msg) == [tag |-> "Ok", val |-> msg]

ParsedErr(broken) == [tag |-> "Err", val |-> broken]

BrokenSyntaxError == [type |-> "SyntaxError"]

BrokenUnmatched(value) == [type |-> "Unmatched", value |-> value]

\* Message::error(code, message, data): a reply built without any request,
\* so it cannot carry a request's id; it is addressed to Null
MessageError(code, message, data) ==
    Response(Null, ResultErr(RPCError(code, message, data)))

\* Request::reply(value): a success reply addressed to the request's id
RequestReply(request, value) == Response(request.id, ResultOk(value))

\* Request::error(code, message, data): an error reply addressed to the
\* request's id
RequestError(request, code, message, data) ==
    Response(request.id, ResultErr(RPCError(code, message, data)))

\* Broken::reply: -32700 for a syntax failure, -32600 for an unmatched value
BrokenReply(broken) ==
    IF broken.type = "SyntaxError"
    THEN MessageError(-32700, "Parse error", NoneV)
    ELSE MessageError(-32600, "Invalid request", NoneV)

\* ------------------------------------------------------ server capability
\* A Server is given by the methods its rpc() and notification() callbacks
\* know; for any other method the callback returns None.
EmptyServer == [rpc |-> {}, notification |-> {}]

AppServer == [rpc |-> {"add"}, notification |-> {"log"}]

Servers == {EmptyServer, AppServer}

\* server.rpc(method, params) is Some(future)
ServerRpc(server, method) == method \in server.rpc

\* server.notification(method, params) is Some(future)
ServerNotification(server, method) == method \in server.notification

\* What a Server::RPCCallResult resolves to: Ok(Success) or
\* Err((code, message, data))
Pending == [tag |-> "Pending"]

OutOk(value) == [tag |-> "Ok", value |-> value]

OutErr(code, message, data) ==
    [tag |-> "Err", code |-> code, message |-> message, data |-> data]

NotHandled == [tag |-> "NotHandled"]

NoOutcome == [tag |-> "NoOutcome"]

RpcOutcomes == {OutOk("sum"), OutErr(-32602, "Invalid params", "detail")}

NotificationOutcomes == {OutOk("unit"), OutErr(0, "unit", NoneV)}

\* ------------------------------------------------------------- futures
\* A FutureMessage of the flattened stream.  path is the position of the
\* inbound item that made it: <<n>> for the n-th top-level item, <<n, i>>
\* for the i-th member of a batch at <<n>>.  src is the item it answers.
\*   kind "immediate":    Ok(val).into_future(), ready when made
\*   kind "rpc":          the server's RPCCallResult followed by `then`
\*   kind "notification": the server's NotificationResult followed by `then`
\*   kind "collect":      receiver.collect() of the batch at path
FutImmediate(path, src, outcome, val) ==
    [path |-> path, kind |-> "immediate", src |-> src, outcome |-> outcome,
     val |-> val]

FutRpc(path, request) ==
    [path |-> path, kind |-> "rpc", src |-> request, outcome |-> Pending,
     val |-> NoMsg]

FutNotification(path, notification) ==
    [path |-> path, kind |-> "notification", src |-> notification,
     outcome |-> Pending, val |-> NoMsg]

FutCollect(path, batch) ==
    [path |-> path, kind |-> "collect", src |-> batch, outcome |-> NoOutcome,
     val |-> NoMsg]

\* The sub-results channel of a batch: channel(msg.len())
Channel(cap) == [cap |-> cap, buf |-> <<>>]

\* What one do_msg call makes: the futures of its stream in stream order, the
\* channels it created and the server callbacks it invoked.
Dispatch(futures, channels, calls) ==
    [futures |-> futures, channels |-> channels, calls |-> calls]

Join(a, b) ==
    Dispatch(a.futures \o b.futures, a.channels @@ b.channels,
             a.calls \o b.calls)

ServerCall(op, method, params) ==
    [op |-> op, method |-> method, params |-> params]

\* ----------------------------------------------------- dispatch engine
do_request(server, request, path) ==
    IF ~ServerRpc(server, request.method)
    THEN Dispatch(<<FutImmediate(path, request, NotHandled,
                      MessageError(-32601, "Method not found",
                                   request.method))>>,
                  <<>>, <<ServerCall("rpc", request.method, request.params)>>)
    ELSE Dispatch(<<FutRpc(path, request)>>, <<>>,
                  <<ServerCall("rpc", request.method, request.params)>>)

\* do_notification answering an unknown method the way do_request does
do_notificationAnswering(server, notification, path) ==
    IF ~ServerNotification(server, notification.method)
    THEN Dispatch(<<FutImmediate(path, notification, NotHandled,
                      MessageError(-32601, "Method not found",
                                   notification.method))>>,
                  <<>>, <<ServerCall("notification", notification.method,
                                     notification.params)>>)
    ELSE Dispatch(<<FutNotification(path, notification)>>, <<>>,
                  <<ServerCall("notification", notification.method,
                               notification.params)>>)

do_notification(server, notification, path) ==
    IF ~ServerNotification(server, notification.method)
    THEN Dispatch(<<FutImmediate(path, notification, NotHandled, NoMsg)>>,
                  <<>>, <<ServerCall("notification", notification.method,
                                     notification.params)>>)
    ELSE Dispatch(<<FutNotification(path, notification)>>, <<>>,
                  <<ServerCall("notification", notification.method,
                               notification.params)>>)

\* do_broken answering nothing
do_brokenSilent(broken, path) ==
    Dispatch(<<FutImmediate(path, broken, NoOutcome, NoMsg)>>, <<>>, <<>>)

\* do_msg, Err(broken): once(Ok(Some(broken.reply()))), no server involved
do_broken(broken, path) ==
    Dispatch(<<FutImmediate(path, broken, NoOutcome, BrokenReply(broken))>>,
             <<>>, <<>>)

\* An UnmatchedSub falling through to the ignored messages
UnmatchedSubIgnored(value) == ParsedOk(Response(Null, ResultOk(value)))

\* do_msg, Ok(Message::UnmatchedSub(value)): handled as Err(Broken::Unmatched)
UnmatchedSubParsed(value) == ParsedErr(BrokenUnmatched(value))

\* An inbound Response answered as an invalid request
do_ignoredAnswered(msg, path) == do_broken(BrokenUnmatched(msg.id), path)

\* do_msg, any other message (a Response among them): empty(), no future
do_ignored(msg, path) == Dispatch(<<>>, <<>>, <<>>)

RECURSIVE do_msg(_, _, _)
RECURSIVE SmallStreams(_, _, _, _)

\* small_streams flattened: do_msg of every member, in order
SmallStreams(server, msgs, path, i) ==
    IF i > Len(msgs)
    THEN Dispatch(<<>>, <<>>, <<>>)
    ELSE Join(do_msg(server, ParsedOk(msgs[i]), Append(path, i)),
              SmallStreams(server, msgs, path, i + 1))

\* A channel one place shorter than the batch
BatchChannelCapShort(msgs) == Len(msgs) - 1

\* channel(msg.len())
BatchChannelCap(msgs) == Len(msgs)

\* The stream of a batch: the futures of its members, then the future that
\* collects what they sent
do_batch(server, msgs, path) ==
    Join(Dispatch(<<>>, path :> Channel(BatchChannelCap(msgs)), <<>>),
         Join(SmallStreams(server, msgs, path, 1),
              Dispatch(<<FutCollect(path, Batch(msgs))>>, <<>>, <<>>)))

do_msg(server, parsed, path) ==
    IF parsed.tag = "Err"
    THEN do_broken(parsed.val, path)
    ELSE LET msg == parsed.val IN
         CASE msg.type = "Request" -> do_request(server, msg, path)
           [] msg.type = "Notification" -> do_notification(server, msg, path)
           [] msg.type = "Batch" -> do_batch(server, msg.items, path)
           [] msg.type = "UnmatchedSub" ->
                do_msg(server, UnmatchedSubParsed(msg.value), path)
           [] OTHER -> do_ignored(msg, path)

\* RpcThen losing the data of the server's error
RpcThenDroppingData(request, outcome) ==
    IF outcome.tag = "Err"
    THEN RequestError(request, outcome.code, outcome.message, NoneV)
    ELSE RequestReply(request, outcome.value)

\* The `then` closure of do_request: the reply for a resolved RPCCallResult
RpcThen(request, outcome) ==
    IF outcome.tag = "Err"
    THEN RequestError(request, outcome.code, outcome.message, outcome.data)
    ELSE RequestReply(request, outcome.value)

\* Collected wrapping an empty result list as well
CollectedAlways(results) == Batch(results)

\* The closure after receiver.collect(): nothing for no results, else a Batch
Collected(results) ==
    IF results = <<>> THEN NoMsg ELSE Batch(results)

\* ------------------------------------------------------- inbound items
ReqAdd == Request("add", "args", "1")

ReqNope == Request("nope", NoneV, "2")

NotifLog == Notification("log", "line")

NotifNope == Notification("nope", NoneV)

RespStray == Response("9", ResultOk("late"))

\* A batch of notifications only, wider than the window
BatchNotifs ==
    Batch(<<NotifNope, NotifLog, NotifNope, NotifLog, NotifNope>>)

\* A batch of one valid request and one malformed member
BatchMixed == Batch(<<ReqAdd, UnmatchedSub("junk")>>)

\* A batch with batches nested in it: one whose members produce no reply, and
\* one whose member does
BatchNested ==
    Batch(<<Batch(<<NotifNope, RespStray>>), Batch(<<ReqNope>>), ReqAdd>>)

\* The items the inbound stream may deliver: every kind of single item, and a
\* batch
Items ==
    { ParsedOk(ReqAdd), ParsedOk(ReqNope), ParsedOk(NotifLog),
      ParsedOk(NotifNope),
      ParsedOk(RespStray), ParsedErr(BrokenSyntaxError),
      ParsedErr(BrokenUnmatched("junk")), ParsedOk(BatchMixed) }

\* The inbound streams of up to MaxInbound items
InboundStreams ==
    UNION {[1..n -> Items] : n \in 0..MaxInbound}

\* The batches of the runs made of batches only
BatchItems ==
    { ParsedOk(BatchNotifs), ParsedOk(BatchMixed), ParsedOk(BatchNested) }

BatchStreams ==
    UNION {[1..n -> BatchItems] : n \in 0..MaxBatches}

\* A batch of as many notifications as the window holds computations
BatchSlow == Batch(<<NotifLog, NotifLog, NotifLog, NotifLog>>)

\* The items of the runs in which progress is checked
LiveItems == {ParsedOk(ReqAdd), ParsedOk(BatchSlow)}

\* The batch, if any, opens the stream
LiveStreams ==
    {s \in UNION {[1..n -> LiveItems] : n \in 0..MaxInbound} :
       \A i \in 2..Len(s) : s[i] # ParsedOk(BatchSlow)}

\* A batch of n members, requests and notifications in turn
WideBatch(n) ==
    Batch([i \in 1..n |-> IF i % 2 = 1 THEN ReqAdd ELSE NotifLog])

\* The batches of the runs of one batch: of every width up to MaxWidth, and
\* nested
WideBatches ==
    {ParsedOk(WideBatch(n)) : n \in 1..MaxWidth} \cup {ParsedOk(BatchNested)}

\* The items of the runs in which the Client handle is used as well
ClientItems ==
    { ParsedOk(ReqAdd), ParsedErr(BrokenSyntaxError), ParsedOk(BatchMixed) }

ClientInboundStreams ==
    UNION {[1..n -> ClientItems] : n \in 0..MaxInbound}

\* ------------------------------------------------------------- the state
VARIABLES
    server,     \* the Server capability given to endpoint()
    inbound,    \* the items of the inbound stream, in arrival order
    arrived,    \* how many of them the transport has delivered
    dispatched, \* how many of them stream.map(do_msg) has taken
    cur,        \* flatten: the futures of the current inner stream not yet taken
    window,     \* buffer_unordered: the futures in flight
    chans,      \* the sub-result channel of every batch being processed
    invoked,    \* the callbacks of the server invoked so far
    log,        \* every future that has completed, with the reply it gave
    flag,       \* Select.flag: TRUE when the client receiver is polled first
    clientQ,    \* the client's outbound channel (sender -> receiver)
    notified,   \* number of notify calls made
    idmap,      \* Client.idmap: the correlation table
    calls,      \* the Client::call invocations and what became of them
    buffered,   \* SendAll: the item the sink has not accepted yet
    sent,       \* the messages written to the sink, in order
    panicked,   \* the thread running the endpoint has panicked
    task,       \* the spawned task: "running", "failed" or "done"
    fault,      \* the error that ended the task: "none", "stream" or "sink"
    eof,        \* the inbound stream has ended
    clientAlive, \* a Client handle (a sender of the channel) still exists
    incoming,   \* the bytes the transport has received and not yet handed over
    rbuf,       \* the EasyBuf that Line::decode is called on
    decoded,    \* what the calls of Line::decode returned, in order
    toSend,     \* the messages that are given to Line::encode
    encoded,    \* how many of them have been encoded
    wbuf        \* the Vec<u8> that Line::encode is called on

\* The state of the task and of the ends of its streams
taskVars == <<task, fault, eof, clientAlive>>

\* The state of the codec and of the buffers it works on
codecVars == <<incoming, rbuf, decoded, toSend, encoded, wbuf>>

vars == <<server, inbound, arrived, dispatched, cur, window, chans, invoked, log, flag,
          clientQ, notified, idmap, calls, buffered, sent, panicked, taskVars,
          codecVars>>

\* SendAll.buffered is None
NoItem == [msg |-> NoMsg, from |-> <<>>]

Item(msg, from) == [msg |-> msg, from |-> from]

\* The origin recorded for a message the Client enqueued
FromClient == <<0>>

\* The state endpoint() leaves behind, before anything is polled
Constructed ==
    /\ server \in Servers
    /\ arrived = 0
    /\ dispatched = 0
    /\ cur = <<>>
    /\ window = {}
    /\ chans = <<>>
    /\ invoked = <<>>
    /\ log = {}
    /\ flag = FALSE
    /\ clientQ = <<>>
    /\ notified = 0
    /\ idmap = {}
    /\ calls = <<>>
    /\ buffered = NoItem
    /\ sent = <<>>
    /\ panicked = FALSE
    /\ task = "running"
    /\ fault = "none"
    /\ eof = FALSE
    /\ clientAlive = TRUE

\* No bytes anywhere: the items of the inbound stream are given as decoded
CodecIdle ==
    /\ incoming = <<>>
    /\ rbuf = <<>>
    /\ decoded = <<>>
    /\ toSend = <<>>
    /\ encoded = 0
    /\ wbuf = <<>>

Init ==
    /\ inbound \in ClientInboundStreams
    /\ Constructed
    /\ CodecIdle

\* A server-only endpoint: the Client handle is never used
EngineInit ==
    /\ inbound \in InboundStreams
    /\ Constructed
    /\ CodecIdle

\* A server-only endpoint whose progress is checked
LiveInit ==
    /\ inbound \in LiveStreams
    /\ Constructed
    /\ CodecIdle

\* A server-only endpoint that is sent one batch
WideInit ==
    /\ inbound \in {<<b>> : b \in WideBatches}
    /\ Constructed
    /\ CodecIdle

\* A server-only endpoint that is sent batches only
BatchInit ==
    /\ inbound \in BatchStreams
    /\ Constructed
    /\ CodecIdle

\* ------------------------------------------------------------- helpers
IsProperPrefix(p, q) ==
    /\ Len(p) < Len(q)
    /\ SubSeq(q, 1, Len(p)) = p

Front(p) == SubSeq(p, 1, Len(p) - 1)

Range(seq) == {seq[i] : i \in 1..Len(seq)}

\* The futures that still own a clone of the sender of the batch at path ch:
\* the ones made for its members, taken or not.
SenderHolders(ch) ==
    {g \in window \cup Range(cur) : IsProperPrefix(ch, g.path)}

\* A window of one computation
WindowHasRoomSerial == Cardinality(window) < 1

\* The window test off by one
WindowHasRoomOffByOne == Cardinality(window) <= BufferSize

\* buffer_unordered takes a new future only while fewer than 4 are in flight
WindowHasRoom == Cardinality(window) < BufferSize

\* A collect that is ready as soon as one member has sent its reply
FutureReadyEager(f) ==
    CASE f.kind = "immediate" -> TRUE
      [] f.kind = "collect" ->
           SenderHolders(f.path) = {} \/ chans[f.path].buf # <<>>
      [] OTHER -> f.outcome # Pending

\* Polling the future would give Ready
FutureReady(f) ==
    CASE f.kind = "immediate" -> TRUE
      [] f.kind = "collect" -> SenderHolders(f.path) = {}
      [] OTHER -> f.outcome # Pending

\* What the ready future resolves to (an Option<Message>)
FutureResult(f) ==
    CASE f.kind = "immediate" -> f.val
      [] f.kind = "rpc" -> RpcThen(f.src, f.outcome)
      [] f.kind = "notification" -> NoMsg
      [] OTHER -> Collected(chans[f.path].buf)

\* The channel the result of a batch member is sent to (<<>>: top level)
Dest(f) == Front(f.path)

LogEntry(f) ==
    [path |-> f.path, kind |-> f.kind, src |-> f.src, outcome |-> f.outcome,
     reply |-> FutureResult(f)]

\* The receiver of a finished collect is dropped with its channel
DropChannel(ch, f) ==
    IF f.kind = "collect"
    THEN [p \in DOMAIN ch \ {f.path} |-> ch[p]]
    ELSE ch

CanStreamMap ==
    /\ cur = <<>>
    /\ dispatched < arrived
    /\ WindowHasRoom

CanAdmit ==
    /\ cur # <<>>
    /\ WindowHasRoom

\* buffer_unordered polls the futures in flight only after its fill loop: the
\* window is full or the flattened stream has nothing to give right now
WindowFilled == ~CanStreamMap /\ ~CanAdmit

\* A future of the window that the pipeline can finish without handing a
\* message to select: its result is None, or goes to a batch channel with room
CanFinishInside(f) ==
    /\ WindowFilled
    /\ FutureReady(f)
    /\ \/ FutureResult(f) = NoMsg
       \/ /\ Dest(f) # <<>>
          /\ Len(chans[Dest(f)].buf) < chans[Dest(f)].cap

\* A future of the window whose result is a top-level outbound message
CanYield(f) ==
    /\ WindowFilled
    /\ FutureReady(f)
    /\ FutureResult(f) # NoMsg
    /\ Dest(f) = <<>>

\* answers.poll() would return NotReady
AnswersIdle ==
    /\ WindowFilled
    /\ \A f \in window : ~CanFinishInside(f) /\ ~CanYield(f)

\* answers has ended: the inbound stream has, every item was dispatched and no
\* computation is left in flatten or in the window of buffer_unordered
AnswersEnded ==
    /\ eof
    /\ dispatched = arrived
    /\ cur = <<>>
    /\ window = {}

\* A receiver that ends as soon as its queue is empty
ReceiverEndedWhenEmpty == clientQ = <<>>

\* The Receiver of the client's channel has ended: every Sender is dropped and
\* every message that was sent has been taken
ReceiverEnded == ~clientAlive /\ clientQ = <<>>

\* send_all polls its stream only when it holds no unsent item
Running == ~panicked /\ task = "running" /\ buffered = NoItem

\* sink.start_send(item): the sink accepts it, or SendAll keeps it buffered
StartSend(item, accept) ==
    IF accept
    THEN sent' = Append(sent, item.msg) /\ buffered' = NoItem
    ELSE sent' = sent /\ buffered' = item

\* ------------------------------------------------------------- actions
\* The transport delivers the next inbound item
Arrive ==
    /\ ~panicked
    /\ ~eof
    /\ arrived < Len(inbound)
    /\ arrived' = arrived + 1
    /\ UNCHANGED <<taskVars, codecVars, server, inbound, dispatched, cur, window, chans, invoked,
                   log, flag, clientQ, notified, idmap, calls, buffered, sent,
                   panicked>>

\* stream.map(|parsed| do_msg(&server, parsed)): the next inbound item is
\* dispatched, which invokes the server callbacks of all its members
StreamMap ==
    /\ Running
    /\ CanStreamMap
    /\ LET d == do_msg(server, inbound[dispatched + 1], <<dispatched + 1>>) IN
         /\ cur' = d.futures
         /\ chans' = d.channels @@ chans
         /\ invoked' = invoked \o d.calls
    /\ dispatched' = dispatched + 1
    /\ UNCHANGED <<taskVars, codecVars, server, inbound, arrived, window, log, flag, clientQ, notified,
                   idmap, calls, buffered, sent, panicked>>

\* flatten + buffer_unordered: the next future of the stream enters the window
BufferAdmit ==
    /\ Running
    /\ CanAdmit
    /\ window' = window \cup {Head(cur)}
    /\ cur' = Tail(cur)
    /\ UNCHANGED <<taskVars, codecVars, server, inbound, arrived, dispatched, chans, invoked, log, flag,
                   clientQ, notified, idmap, calls, buffered, sent, panicked>>

\* The server's computation for a request or notification resolves
ServerResolve(f, outcome) ==
    /\ ~panicked
    /\ f \in window
    /\ f.kind \in {"rpc", "notification"}
    /\ f.outcome = Pending
    /\ outcome \in (IF f.kind = "rpc" THEN RpcOutcomes ELSE NotificationOutcomes)
    /\ window' = (window \ {f}) \cup {[f EXCEPT !.outcome = outcome]}
    /\ UNCHANGED <<taskVars, codecVars, server, inbound, arrived, dispatched, cur, chans, invoked, log, flag,
                   clientQ, notified, idmap, calls, buffered, sent, panicked>>

\* buffer_unordered + filter_map, and the msg_sent wrapper of do_batch: a
\* ready future leaves the window; a None result is dropped, a batch member's
\* message is sent into the batch's channel
FuturePoll(f) ==
    /\ Running
    /\ f \in window
    /\ CanFinishInside(f)
    /\ window' = window \ {f}
    /\ log' = log \cup {LogEntry(f)}
    /\ chans' = IF FutureResult(f) = NoMsg
                THEN DropChannel(chans, f)
                ELSE DropChannel([chans EXCEPT ![Dest(f)].buf =
                                     Append(@, FutureResult(f))], f)
    /\ UNCHANGED <<taskVars, codecVars, server, inbound, arrived, dispatched, cur, invoked, flag, clientQ,
                   notified, idmap, calls, buffered, sent, panicked>>

\* A select that yields an answer whenever one is ready
SelectAnswerGreedy(f, accept) ==
    /\ Running
    /\ f \in window
    /\ CanYield(f)
    /\ flag' = TRUE
    /\ window' = window \ {f}
    /\ log' = log \cup {LogEntry(f)}
    /\ chans' = DropChannel(chans, f)
    /\ StartSend(Item(FutureResult(f), f.path), accept)
    /\ UNCHANGED <<taskVars, codecVars, server, inbound, arrived, dispatched, cur, invoked, clientQ,
                   notified, idmap, calls, panicked>>

\* answers.select(receiver) yields an answer: when answers is polled first,
\* or the receiver has nothing
SelectAnswer(f, accept) ==
    /\ Running
    /\ f \in window
    /\ CanYield(f)
    /\ ~flag \/ clientQ = <<>>
    /\ flag' = TRUE
    /\ window' = window \ {f}
    /\ log' = log \cup {LogEntry(f)}
    /\ chans' = DropChannel(chans, f)
    /\ StartSend(Item(FutureResult(f), f.path), accept)
    /\ UNCHANGED <<taskVars, codecVars, server, inbound, arrived, dispatched, cur, invoked, clientQ,
                   notified, idmap, calls, panicked>>

\* answers.select(receiver) yields a client message: when the receiver is
\* polled first, or answers has nothing ready
SelectClient(accept) ==
    /\ Running
    /\ clientQ # <<>>
    /\ flag \/ AnswersIdle
    /\ flag' = FALSE
    /\ clientQ' = Tail(clientQ)
    /\ StartSend(Item(Head(clientQ), FromClient), accept)
    /\ UNCHANGED <<taskVars, codecVars, server, inbound, arrived, dispatched, cur, window, chans, invoked,
                   log, notified, idmap, calls, panicked>>

\* A poll of select that finds neither side ready leaves the flag flipped
SelectIdle ==
    /\ Running
    /\ clientQ = <<>>
    /\ AnswersIdle
    /\ ~(AnswersEnded /\ ReceiverEnded)
    /\ flag' = ~flag
    /\ UNCHANGED <<taskVars, codecVars, server, inbound, arrived, dispatched, cur, window, chans, invoked,
                   log, clientQ, notified, idmap, calls, buffered, sent,
                   panicked>>

\* SendAll retries the buffered item and the sink accepts it
SinkFlush ==
    /\ ~panicked
    /\ task = "running"
    /\ buffered # NoItem
    /\ sent' = Append(sent, buffered.msg)
    /\ buffered' = NoItem
    /\ UNCHANGED <<taskVars, codecVars, server, inbound, arrived, dispatched, cur, window, chans, invoked,
                   log, flag, clientQ, notified, idmap, calls, panicked>>

NotifyMethods == {"ping"}

NotifyParams == {"arg"}

\* Client::notify, in a run of at most bound calls of it
NotifyUpTo(bound, method, params) ==
    /\ ~panicked
    /\ clientAlive
    /\ notified < bound
    /\ Len(clientQ) < ClientChannelCap
    /\ clientQ' = Append(clientQ, MessageNotification(method, params))
    /\ notified' = notified + 1
    /\ UNCHANGED <<taskVars, codecVars, server, inbound, arrived, dispatched, cur, window, chans, invoked,
                   log, flag, idmap, calls, buffered, sent, panicked>>

\* Client::notify
Notify(method, params) == NotifyUpTo(MaxNotify, method, params)

\* Client::call: unimplemented!() panics before anything is registered or sent
Call(method, params) ==
    /\ ~panicked
    /\ calls' = Append(calls, [method |-> method, params |-> params,
                               state |-> "panicked"])
    /\ panicked' = TRUE
    /\ UNCHANGED <<taskVars, codecVars, server, inbound, arrived, dispatched, cur, window, chans, invoked,
                   log, flag, clientQ, notified, idmap, buffered, sent>>

\* The steps of the connection's task and of the server's computations
EngineNext ==
    \/ Arrive
    \/ StreamMap
    \/ BufferAdmit
    \/ \E f \in window : \E o \in RpcOutcomes \cup NotificationOutcomes :
         ServerResolve(f, o)
    \/ \E f \in window : FuturePoll(f)
    \/ \E f \in window : \E accept \in BOOLEAN : SelectAnswer(f, accept)
    \/ SelectIdle
    \/ SinkFlush

\* The steps that exist only when the Client handle is used
ClientNext ==
    \/ \E accept \in BOOLEAN : SelectClient(accept)
    \/ \E m \in NotifyMethods : \E p \in NotifyParams : Notify(m, p)
    \/ \E m \in NotifyMethods : \E p \in NotifyParams : Call(m, p)

Next == EngineNext \/ ClientNext

Spec == Init /\ [][Next]_vars

EngineSpec == EngineInit /\ [][EngineNext]_vars

BatchSpec == BatchInit /\ [][EngineNext]_vars

\* The steps of the task spawned on the reactor handle: the task is polled
\* again whenever a future or the sink it waits for wakes it
TaskStep ==
    \/ StreamMap
    \/ BufferAdmit
    \/ \E f \in window : FuturePoll(f)
    \/ \E f \in window : \E accept \in BOOLEAN : SelectAnswer(f, accept)
    \/ SinkFlush

\* The task makes progress while it can; nothing makes the transport deliver
\* or a server computation resolve
FairSpec == LiveInit /\ [][EngineNext]_vars /\ WF_vars(TaskStep)

\* A computation of the server resolves
ServerStep ==
    \E f \in window : \E o \in RpcOutcomes \cup NotificationOutcomes :
        ServerResolve(f, o)

\* The runs of one batch in which the task makes progress while it can and
\* every computation of the server completes
BatchFairSpec ==
    WideInit /\ [][EngineNext]_vars /\ WF_vars(TaskStep) /\ WF_vars(ServerStep)

\* =========================================================== the Line codec
\* ------------------------------------------------------- serde_json values
\* Where the engine treats a serde_json Value as an opaque atom, the codec and
\* the conversions of message.rs depend on its structure.
JNull == [null |-> TRUE]

JStr(s) == [str |-> s]

JNum(n) == [num |-> n]

JArr(items) == [arr |-> items]

\* Value::Object: a map from keys to values
JObj(map) == [obj |-> map]

\* Option<Value>::None of a field whose values are structured
Absent == [none |-> TRUE]

IsNull(v) == DOMAIN v = {"null"}

IsStr(v) == DOMAIN v = {"str"}

IsNum(v) == DOMAIN v = {"num"}

IsArr(v) == DOMAIN v = {"arr"}

IsObj(v) == DOMAIN v = {"obj"}

\* Message::Unmatched(Value)
MessageUnmatched(value) == [type |-> "Unmatched", value |-> value]

\* Message::SyntaxError
MessageSyntaxError == [type |-> "SyntaxError"]

\* ------------------------------------------------------------- JSON text
\* The bytes of a buffer, at the grain of JSON tokens: punctuation, string
\* literals, numbers, the literal null, the newline byte, and bytes that are
\* not the start of any token.
P(c) == [p |-> c]

S(s) == [s |-> s]

N(n) == [n |-> n]

LitNull == [lit |-> "null"]

Raw(c) == [raw |-> c]

Newline == [nl |-> TRUE]

\* The keys the values of the model use, in the order of a BTreeMap
KeyOrder ==
    <<"Err", "Ok", "code", "data", "error", "id", "jsonrpc", "message",
      "method", "params", "result">>

\* a, b, c  ->  a , b , c
RECURSIVE Commas(_)
Commas(texts) ==
    IF texts = <<>> THEN <<>>
    ELSE IF Len(texts) = 1 THEN texts[1]
    ELSE texts[1] \o <<P(",")>> \o Commas(Tail(texts))

\* Serialize for Value: compact text, the keys of an object in map order
RECURSIVE SerValue(_)
SerValue(v) ==
    CASE IsNull(v) -> <<LitNull>>
      [] IsStr(v) -> <<S(v.str)>>
      [] IsNum(v) -> <<N(v.num)>>
      [] IsArr(v) ->
           <<P("[")>>
             \o Commas([i \in 1..Len(v.arr) |-> SerValue(v.arr[i])])
             \o <<P("]")>>
      [] IsObj(v) ->
           LET InMap(k) == k \in DOMAIN v.obj
               keys == SelectSeq(KeyOrder, InMap)
           IN <<P("{")>>
                \o Commas([i \in 1..Len(keys) |->
                             <<S(keys[i]), P(":")>> \o SerValue(v.obj[keys[i]])])
                \o <<P("}")>>

\* One field of a serialized struct
Field(key, text) == <<S(key), P(":")>> \o text

\* #[serde(skip_serializing_if = "Option::is_none")]
OptField(key, opt) ==
    IF opt = Absent THEN <<>> ELSE <<Field(key, SerValue(opt))>>

\* Serialize for Version
SerVersion == <<S("2.0")>>

\* derive(Serialize) for Request: jsonrpc, method, params, id
SerRequest(req) ==
    <<P("{")>>
      \o Commas(<<Field("jsonrpc", SerVersion), Field("method", <<S(req.method)>>)>>
                  \o OptField("params", req.params)
                  \o <<Field("id", SerValue(req.id))>>)
      \o <<P("}")>>

\* derive(Serialize) for RPCError: code, message, data
SerRPCError(err) ==
    <<P("{")>>
      \o Commas(<<Field("code", <<N(err.code)>>),
                  Field("message", <<S(err.message)>>)>>
                  \o OptField("data", err.data))
      \o <<P("}")>>

\* Serialize for Response: id, then result or error
SerResponse(resp) ==
    <<P("{")>>
      \o Commas(<<Field("id", SerValue(resp.id)),
                  IF resp.result.ok
                  THEN Field("result", SerValue(resp.result.value))
                  ELSE Field("error", SerRPCError(resp.result.error))>>)
      \o <<P("}")>>

\* derive(Serialize) for Notification: jsonrpc, method, params
SerNotification(notif) ==
    <<P("{")>>
      \o Commas(<<Field("jsonrpc", SerVersion),
                  Field("method", <<S(notif.method)>>)>>
                  \o OptField("params", notif.params))
      \o <<P("}")>>

\* Serialize for Message, as serde_json::ser::to_vec writes it
RECURSIVE to_vec(_)
to_vec(msg) ==
    CASE msg.type = "Request" -> SerRequest(msg)
      [] msg.type = "Response" -> SerResponse(msg)
      [] msg.type = "Notification" -> SerNotification(msg)
      [] msg.type = "Batch" ->
           <<P("[")>>
             \o Commas([i \in 1..Len(msg.items) |-> to_vec(msg.items[i])])
             \o <<P("]")>>
      [] msg.type = "Unmatched" -> SerValue(msg.value)

\* ------------------------------------------------------------ JSON parsing
\* The result of parsing a value from the front of a text
ParseOk(val, rest) == [ok |-> TRUE, val |-> val, rest |-> rest]

ParseFail == [ok |-> FALSE]

StartsWith(text, tok) == text # <<>> /\ Head(text) = tok

RECURSIVE ParseValue(_), ParseElements(_, _), ParseMembers(_, _)

\* serde_json's parser for one JSON value
ParseValue(text) ==
    IF text = <<>> THEN ParseFail
    ELSE LET tok == Head(text) IN
         CASE DOMAIN tok = {"s"} -> ParseOk(JStr(tok.s), Tail(text))
           [] DOMAIN tok = {"n"} -> ParseOk(JNum(tok.n), Tail(text))
           [] tok = LitNull -> ParseOk(JNull, Tail(text))
           [] tok = P("[") ->
                IF StartsWith(Tail(text), P("]"))
                THEN ParseOk(JArr(<<>>), Tail(Tail(text)))
                ELSE ParseElements(Tail(text), <<>>)
           [] tok = P("{") ->
                IF StartsWith(Tail(text), P("}"))
                THEN ParseOk(JObj(<<>>), Tail(Tail(text)))
                ELSE ParseMembers(Tail(text), <<>>)
           [] OTHER -> ParseFail

\* The elements of an array after "[" or ",": a value, then "," or "]"
ParseElements(text, items) ==
    LET elem == ParseValue(text) IN
    IF ~elem.ok THEN ParseFail
    ELSE IF StartsWith(elem.rest, P(","))
         THEN ParseElements(Tail(elem.rest), Append(items, elem.val))
    ELSE IF StartsWith(elem.rest, P("]"))
         THEN ParseOk(JArr(Append(items, elem.val)), Tail(elem.rest))
    ELSE ParseFail

\* The members of an object after "{" or ",": a key, ":", a value, then ","
\* or "}".  A key given twice keeps its last value.
ParseMembers(text, map) ==
    IF Len(text) < 2 \/ DOMAIN text[1] # {"s"} \/ text[2] # P(":")
    THEN ParseFail
    ELSE LET member == ParseValue(Tail(Tail(text))) IN
         IF ~member.ok THEN ParseFail
         ELSE LET map2 == (text[1].s :> member.val) @@ map IN
              IF StartsWith(member.rest, P(","))
              THEN ParseMembers(Tail(member.rest), map2)
              ELSE IF StartsWith(member.rest, P("}"))
                   THEN ParseOk(JObj(map2), Tail(member.rest))
                   ELSE ParseFail

\* --------------------------------------------- from_value, per target type
\* The outcome of a from_value
De(val) == [ok |-> TRUE, val |-> val]

DeFail == [ok |-> FALSE]

\* The fields of a struct as the derived visitor finds them: by key in an
\* object, by position in an array of exactly as many elements
HasFields(v, names) ==
    \/ IsObj(v)
    \/ IsArr(v) /\ Len(v.arr) = Len(names)

FieldPresent(v, names, i) ==
    IF IsObj(v) THEN names[i] \in DOMAIN v.obj ELSE TRUE

FieldValue(v, names, i) ==
    IF IsObj(v) THEN v.obj[names[i]] ELSE v.arr[i]

\* Deserialize for Version: a string equal to "2.0"
IsVersion(v) == IsStr(v) /\ v.str = "2.0"

\* Deserialize for Option<Value>: null and a missing field are None
DeOption(v, names, i) ==
    IF ~FieldPresent(v, names, i) \/ IsNull(FieldValue(v, names, i))
    THEN Absent
    ELSE FieldValue(v, names, i)

RequestFields == <<"jsonrpc", "method", "params", "id">>

\* from_value::<Request>
DeRequest(v) ==
    IF /\ HasFields(v, RequestFields)
       /\ FieldPresent(v, RequestFields, 1)
       /\ IsVersion(FieldValue(v, RequestFields, 1))
       /\ FieldPresent(v, RequestFields, 2)
       /\ IsStr(FieldValue(v, RequestFields, 2))
       /\ FieldPresent(v, RequestFields, 4)
    THEN De(Request(FieldValue(v, RequestFields, 2).str,
                    DeOption(v, RequestFields, 3),
                    FieldValue(v, RequestFields, 4)))
    ELSE DeFail

RPCErrorFields == <<"code", "message", "data">>

\* from_value::<RPCError>
DeRPCError(v) ==
    IF /\ HasFields(v, RPCErrorFields)
       /\ FieldPresent(v, RPCErrorFields, 1)
       /\ IsNum(FieldValue(v, RPCErrorFields, 1))
       /\ FieldPresent(v, RPCErrorFields, 2)
       /\ IsStr(FieldValue(v, RPCErrorFields, 2))
    THEN De(RPCError(FieldValue(v, RPCErrorFields, 1).num,
                     FieldValue(v, RPCErrorFields, 2).str,
                     DeOption(v, RPCErrorFields, 3)))
    ELSE DeFail

\* Deserialize for Result<Value, RPCError>: serde's enum form, an object of the
\* single key "Ok" or "Err"
DeResult(v) ==
    IF IsObj(v) /\ DOMAIN v.obj = {"Ok"}
    THEN De(ResultOk(v.obj["Ok"]))
    ELSE IF IsObj(v) /\ DOMAIN v.obj = {"Err"} /\ DeRPCError(v.obj["Err"]).ok
         THEN De(ResultErr(DeRPCError(v.obj["Err"]).val))
         ELSE DeFail

ResponseFields == <<"result", "id">>

\* from_value::<Response>, as derive(Deserialize) makes it
DeResponse(v) ==
    IF /\ HasFields(v, ResponseFields)
       /\ FieldPresent(v, ResponseFields, 1)
       /\ DeResult(FieldValue(v, ResponseFields, 1)).ok
       /\ FieldPresent(v, ResponseFields, 2)
    THEN De(Response(FieldValue(v, ResponseFields, 2),
                     DeResult(FieldValue(v, ResponseFields, 1)).val))
    ELSE DeFail

NotificationFields == <<"jsonrpc", "method", "params">>

\* from_value::<Notification>
DeNotification(v) ==
    IF /\ HasFields(v, NotificationFields)
       /\ FieldPresent(v, NotificationFields, 1)
       /\ IsVersion(FieldValue(v, NotificationFields, 1))
       /\ FieldPresent(v, NotificationFields, 2)
       /\ IsStr(FieldValue(v, NotificationFields, 2))
    THEN De(Notification(FieldValue(v, NotificationFields, 2).str,
                         DeOption(v, NotificationFields, 3)))
    ELSE DeFail

\* The conversion with the Notification branch tried first
RECURSIVE MessageFromNotificationFirst(_)
MessageFromNotificationFirst(v) ==
    IF DeNotification(v).ok THEN DeNotification(v).val
    ELSE IF DeRequest(v).ok THEN DeRequest(v).val
    ELSE IF DeResponse(v).ok THEN DeResponse(v).val
    ELSE IF IsArr(v)
         THEN Batch([i \in 1..Len(v.arr) |->
                       MessageFromNotificationFirst(v.arr[i])])
    ELSE MessageUnmatched(v)

\* From<Value> for Message: the branches tried in sequence, the first one that
\* matches taken; from_value::<Vec<Message>> converts every element of an array
RECURSIVE MessageFrom(_)
MessageFrom(v) ==
    IF DeRequest(v).ok THEN DeRequest(v).val
    ELSE IF DeResponse(v).ok THEN DeResponse(v).val
    ELSE IF DeNotification(v).ok THEN DeNotification(v).val
    ELSE IF IsArr(v)
         THEN Batch([i \in 1..Len(v.arr) |-> MessageFrom(v.arr[i])])
    ELSE MessageUnmatched(v)

\* serde_json::de::from_slice::<Message>: one value and nothing after it
from_slice(line) ==
    LET parsed == ParseValue(line) IN
    IF parsed.ok /\ parsed.rest = <<>>
    THEN De(MessageFrom(parsed.val))
    ELSE DeFail

\* ----------------------------------------------------------- Line codec
\* The position of the first newline byte of the buffer, 0 if there is none
RECURSIVE NewlineFrom(_, _)
NewlineFrom(buf, i) ==
    IF i > Len(buf) THEN 0
    ELSE IF buf[i] = Newline THEN i
    ELSE NewlineFrom(buf, i + 1)

Position(buf) == NewlineFrom(buf, 1)

\* EasyBuf::drain_to(n): the first n bytes, and the buffer without them
DrainTo(buf, n) ==
    [taken |-> SubSeq(buf, 1, n), buf |-> SubSeq(buf, n + 1, Len(buf))]

\* A decode that takes the line and leaves its newline in the buffer
decodeKeepingNewline(buf) ==
    IF Position(buf) = 0
    THEN [item |-> NoMsg, buf |-> buf]
    ELSE LET line == DrainTo(buf, Position(buf) - 1)
             parsed == from_slice(line.taken)
         IN [item |-> IF parsed.ok THEN parsed.val ELSE MessageSyntaxError,
             buf |-> line.buf]

\* A decode that leaves a malformed line in the buffer
decodeKeepingBadLine(buf) ==
    IF Position(buf) = 0
    THEN [item |-> NoMsg, buf |-> buf]
    ELSE LET line == DrainTo(buf, Position(buf) - 1)
             rest == DrainTo(line.buf, 1).buf
             parsed == from_slice(line.taken)
         IN [item |-> IF parsed.ok THEN parsed.val ELSE MessageSyntaxError,
             buf |-> IF parsed.ok THEN rest ELSE buf]

\* Line::decode: the item (NoMsg for Ok(None)) and the buffer it leaves
decode(buf) ==
    IF Position(buf) = 0
    THEN [item |-> NoMsg, buf |-> buf]
    ELSE LET line == DrainTo(buf, Position(buf) - 1)
             rest == DrainTo(line.buf, 1).buf
             parsed == from_slice(line.taken)
         IN [item |-> IF parsed.ok THEN parsed.val ELSE MessageSyntaxError,
             buf |-> rest]

\* An encode that appends to what the buffer holds
encodeAppending(msg, buf) == buf \o to_vec(msg) \o <<Newline>>

\* Line::encode: the buffer is assigned the text, then the newline is pushed
encode(msg, buf) == Append(to_vec(msg), Newline)

\* ------------------------------------------------- the codec's inputs
\* Number of messages given to Line::encode in one run.
MaxEncode == 2

\* Calls of Line::decode in one run: one per record and one more
MaxDecodes == MaxInbound + 1

\* The record of the tests: {"jsonrpc":"2.0","method":"notif"} and a newline
MsgString ==
    <<P("{"), S("jsonrpc"), P(":"), S("2.0"), P(","), S("method"), P(":"),
      S("notif"), P("}"), Newline>>

\* The incomplete record of the tests: {"jsonrpc": "2.0", "method":"
Incomplete ==
    <<P("{"), S("jsonrpc"), P(":"), S("2.0"), P(","), S("method"), P(":"),
      Raw("\"")>>

\* The malformed record of the tests: {] and a newline
SyntaxErrorLine == <<P("{"), P("]"), Newline>>

\* {"jsonrpc":"2.0","method":"add","id":1} and a newline
RequestLine ==
    <<P("{"), S("jsonrpc"), P(":"), S("2.0"), P(","), S("method"), P(":"),
      S("add"), P(","), S("id"), P(":"), N(1), P("}"), Newline>>

\* {"id":1,"result":5} and a newline
ResultLine ==
    <<P("{"), S("id"), P(":"), N(1), P(","), S("result"), P(":"), N(5),
      P("}"), Newline>>

Segments ==
    {MsgString, Incomplete, SyntaxErrorLine, RequestLine, ResultLine}

RECURSIVE Concat(_)
Concat(texts) ==
    IF texts = <<>> THEN <<>> ELSE Head(texts) \o Concat(Tail(texts))

\* What the transport may receive: up to MaxInbound records
WireStreams ==
    {Concat(segs) : segs \in UNION {[1..n -> Segments] : n \in 0..MaxInbound}}

NotifBare == MessageNotification("notif", Absent)

NotifNullParams == MessageNotification("log", JNull)

RequestAdd == Request("add", JArr(<<JNum(1)>>), JNum(1))

ResponseOk == Response(JNum(1), ResultOk(JNum(5)))

ResponseErr ==
    Response(JNull,
             ResultErr(RPCError(-32601, "Method not found", JStr("add"))))

BatchOfTwo == Batch(<<RequestAdd, NotifBare>>)

\* The messages that may be given to Line::encode
CodecMessages ==
    {NotifBare, NotifNullParams, RequestAdd, ResponseOk, ResponseErr,
     BatchOfTwo}

SendSeqs ==
    UNION {[1..n -> CodecMessages] : n \in 0..MaxEncode}

\* A codec that is given bytes to decode, or messages to encode whose bytes
\* are then decoded by a codec at the other end
CodecInit ==
    /\ inbound = <<>>
    /\ Constructed
    /\ server = EmptyServer
    /\ rbuf = <<>>
    /\ decoded = <<>>
    /\ encoded = 0
    /\ wbuf = <<>>
    /\ \/ incoming \in WireStreams /\ toSend = <<>>
       \/ incoming = <<>> /\ toSend \in SendSeqs

\* ------------------------------------------------- the codec's steps
engineVars ==
    <<server, inbound, arrived, dispatched, cur, window, chans, invoked, log,
      flag, clientQ, notified, idmap, calls, buffered, sent, panicked>>

\* The transport appends the next n received bytes to the EasyBuf
Read(n) ==
    /\ n \in 1..Len(incoming)
    /\ rbuf' = rbuf \o SubSeq(incoming, 1, n)
    /\ incoming' = SubSeq(incoming, n + 1, Len(incoming))
    /\ UNCHANGED <<engineVars, taskVars, decoded, toSend, encoded, wbuf>>

\* The framed transport calls Line::decode on the EasyBuf
Decode ==
    /\ Len(decoded) < MaxDecodes
    /\ rbuf' = decode(rbuf).buf
    /\ decoded' = Append(decoded, decode(rbuf).item)
    /\ UNCHANGED <<engineVars, taskVars, incoming, toSend, encoded, wbuf>>

\* The framed transport calls Line::encode for the next message
Encode ==
    /\ encoded < Len(toSend)
    /\ wbuf' = encode(toSend[encoded + 1], wbuf)
    /\ encoded' = encoded + 1
    /\ UNCHANGED <<engineVars, taskVars, incoming, rbuf, decoded, toSend>>

\* The transport writes the buffer out, and the bytes reach the other end
Carry ==
    /\ wbuf # <<>>
    /\ incoming' = incoming \o wbuf
    /\ wbuf' = <<>>
    /\ UNCHANGED <<engineVars, taskVars, rbuf, decoded, toSend, encoded>>

CodecNext ==
    \/ \E n \in {1, Len(incoming)} : Read(n)
    \/ Decode
    \/ Encode
    \/ Carry

CodecSpec == CodecInit /\ [][CodecNext]_vars

\* ------------------------------------------- errors of the connection
\* The items of the runs in which the connection fails
FaultItems == {ParsedOk(ReqAdd), ParsedOk(NotifLog), ParsedOk(BatchMixed)}

FaultStreams ==
    UNION {[1..n -> FaultItems] : n \in 0..MaxInbound}

FaultInit ==
    /\ inbound \in FaultStreams
    /\ Constructed
    /\ CodecIdle

\* An error of the stream that the task goes on after
StreamErrorSwallowed ==
    /\ Running
    /\ WindowHasRoom
    /\ cur = <<>>
    /\ dispatched = arrived
    /\ ~eof
    /\ fault = "none"
    /\ fault' = "stream"
    /\ UNCHANGED <<task, eof, clientAlive, codecVars, engineVars>>

\* The inbound stream gives Err(IoError) where its next item would be: map,
\* flatten, buffer_unordered, filter_map and select pass the error on at once,
\* send_all returns it and the spawned future is complete.  What the task held
\* is dropped with it; the model leaves it as it was, nothing uses it again.
StreamError ==
    /\ Running
    /\ WindowHasRoom
    /\ cur = <<>>
    /\ dispatched = arrived
    /\ ~eof
    /\ task' = "failed"
    /\ fault' = "stream"
    /\ UNCHANGED <<eof, clientAlive, codecVars, engineVars>>

\* start_send or poll_complete of the sink gives Err(IoError): every poll of
\* send_all calls one of them, and returns the error
SinkError ==
    /\ ~panicked
    /\ task = "running"
    /\ task' = "failed"
    /\ fault' = "sink"
    /\ UNCHANGED <<eof, clientAlive, codecVars, engineVars>>

FaultNext ==
    \/ EngineNext
    \/ StreamError
    \/ SinkError

FaultSpec == FaultInit /\ [][FaultNext]_vars

\* ----------------------------------------------- the end of the task
\* The items of the runs in which the streams end
TermItems == {ParsedOk(ReqAdd), ParsedOk(NotifNope)}

TermStreams ==
    UNION {[1..n -> TermItems] : n \in 0..MaxInbound}

TermInit ==
    /\ inbound \in TermStreams
    /\ Constructed
    /\ CodecIdle

\* The transport has delivered its last item: the inbound stream ends
EndOfStream ==
    /\ ~panicked
    /\ ~eof
    /\ arrived = Len(inbound)
    /\ eof' = TRUE
    /\ UNCHANGED <<task, fault, clientAlive, codecVars, engineVars>>

\* The last Client handle, and with it the last Sender of the channel, is
\* dropped
DropClient ==
    /\ ~panicked
    /\ clientAlive
    /\ clientAlive' = FALSE
    /\ UNCHANGED <<task, fault, eof, codecVars, engineVars>>

\* select yields None because both its streams have ended; send_all, which
\* holds no unsent item, completes, and so does the spawned future
Finish ==
    /\ Running
    /\ AnswersEnded
    /\ ReceiverEnded
    /\ task' = "done"
    /\ UNCHANGED <<fault, eof, clientAlive, codecVars, engineVars>>

TermNext ==
    \/ EngineNext
    \/ \E accept \in BOOLEAN : SelectClient(accept)
    \/ \E m \in NotifyMethods : \E p \in NotifyParams : Notify(m, p)
    \/ EndOfStream
    \/ DropClient
    \/ Finish

\* The steps of the spawned task when the Client handle is used
TermTaskStep ==
    \/ TaskStep
    \/ \E accept \in BOOLEAN : SelectClient(accept)
    \/ Finish

\* The task makes progress while it can; nothing makes the transport deliver
\* or end, a server computation resolve, or the Client be used or dropped
TermSpec == TermInit /\ [][TermNext]_vars /\ WF_vars(TermTaskStep)

\* ------------------------------------------ replies and client traffic
\* Number of Client::notify calls in the runs in which both sides of select
\* have messages.
MaxMerge == 2

\* The items of those runs
MergeItems == {ParsedOk(ReqAdd), ParsedOk(NotifNope)}

MergeInit ==
    /\ inbound \in UNION {[1..n -> MergeItems] : n \in 0..MaxInbound}
    /\ Constructed
    /\ CodecIdle

MergeNext ==
    \/ EngineNext
    \/ \E accept \in BOOLEAN : SelectClient(accept)
    \/ \E m \in NotifyMethods : \E p \in NotifyParams : NotifyUpTo(MaxMerge, m, p)

\* The steps of the spawned task when the Client handle is used
MergeTaskStep ==
    \/ TaskStep
    \/ \E accept \in BOOLEAN : SelectClient(accept)

\* The task makes progress while it can, which includes that the sink accepts
\* an item it is offered again; nothing makes the transport deliver, a server
\* computation resolve or the Client be used
MergeSpec == MergeInit /\ [][MergeNext]_vars /\ WF_vars(MergeTaskStep)

\* =========================================================== properties
\* The messages of an inbound item with their positions: the item itself, or
\* the members of a batch (members of nested batches included).
RECURSIVE MessageLeaves(_, _)
MessageLeaves(msg, path) ==
    IF msg.type = "Batch"
    THEN UNION {MessageLeaves(msg.items[i], Append(path, i)) :
                  i \in 1..Len(msg.items)}
    ELSE {[path |-> path, msg |-> msg]}

ParsedLeaves(parsed, path) ==
    IF parsed.tag = "Err"
    THEN {[path |-> path, msg |-> parsed.val]}
    ELSE MessageLeaves(parsed.val, path)

\* The messages dispatched so far
DispatchedLeaves ==
    UNION {ParsedLeaves(inbound[n], <<n>>) : n \in 1..dispatched}

\* The futures made and not yet finished
Unfinished == window \cup Range(cur)

\* The message at this position has exactly one computation: still to finish,
\* or finished once
OneComputation(leaf) ==
    /\ Cardinality({f \in Unfinished : f.path = leaf.path})
         + Cardinality({e \in log : e.path = leaf.path}) = 1
    /\ \A f \in Unfinished : f.path = leaf.path => f.src = leaf.msg
    /\ \A e \in log : e.path = leaf.path => e.src = leaf.msg

IsResponse(msg) == msg.type = "Response"

IsErrorReply(msg, code) ==
    /\ IsResponse(msg)
    /\ ~msg.result.ok
    /\ msg.result.error.code = code

\* C1: in each of the three handler outcomes (not handled, success, failure)
\* the reply to a dispatched Request carries the id of that Request.
C1_ReplyCarriesRequestId ==
    \A e \in log :
        e.src.type = "Request" =>
            /\ IsResponse(e.reply)
            /\ e.reply.id = e.src.id

Outbound ==
    Range(sent)
      \cup (IF buffered = NoItem THEN {} ELSE {buffered.msg})
      \cup UNION {Range(chans[p].buf) : p \in DOMAIN chans}

\* The server was invoked once per dispatched Request or Notification and for
\* nothing else
InvokedOnlyForCalls ==
    /\ Len(invoked) =
         Cardinality({leaf \in DispatchedLeaves :
                        leaf.msg.type \in {"Request", "Notification"}})
    /\ \A i \in 1..Len(invoked) :
         \E leaf \in DispatchedLeaves :
            /\ leaf.msg.type \in {"Request", "Notification"}
            /\ invoked[i].method = leaf.msg.method

\* C3: a dispatched Notification never produces an outbound message, whether
\* the server declines it or its computation succeeds or fails; a returned
\* computation is run to completion and its outcome discarded.
C3_NotificationSilent ==
    /\ \A leaf \in DispatchedLeaves :
         leaf.msg.type = "Notification" =>
            /\ OneComputation(leaf)
            /\ \A e \in log :
                 e.path = leaf.path =>
                    /\ e.reply = NoMsg
                    /\ e.kind = "notification" =>
                         e.outcome \in NotificationOutcomes
    /\ \A m \in Outbound :
         \E e \in log : e.reply = m /\ e.src.type # "Notification"

\* C3 witness: a notification whose computation failed and one that the
\* server declined have finished, and nothing has been produced
C3_Witness ==
    /\ \E e \in log : e.kind = "notification" /\ e.outcome.tag = "Err"
    /\ \E e \in log :
         e.src.type = "Notification" /\ e.outcome.tag = "NotHandled"
    /\ dispatched = 2
    /\ Unfinished = {}
    /\ Outbound = {}

BrokenTypes == {"SyntaxError", "Unmatched"}

\* C4: a Broken inbound item produces exactly one error reply, -32700 for a
\* syntax failure and -32600 for an unmatched value, without the server being
\* invoked, and it does not hold up the items after it.
C4_BrokenReply ==
    /\ \A leaf \in DispatchedLeaves :
         leaf.msg.type \in BrokenTypes =>
            /\ OneComputation(leaf)
            /\ \A f \in Unfinished :
                 f.path = leaf.path => f.kind = "immediate"
            /\ \A e \in log :
                 e.path = leaf.path =>
                    IsErrorReply(e.reply,
                                 IF leaf.msg.type = "SyntaxError"
                                 THEN -32700 ELSE -32600)
    /\ InvokedOnlyForCalls

\* C4 witness: both kinds of Broken item were answered, the second after the
\* first, and both replies were written
C4_Witness ==
    /\ Len(inbound) = 2
    /\ inbound[1] = ParsedErr(BrokenSyntaxError)
    /\ inbound[2] = ParsedErr(BrokenUnmatched("junk"))
    /\ Len(sent) = 2
    /\ IsErrorReply(sent[1], -32700)
    /\ IsErrorReply(sent[2], -32600)
    /\ invoked = <<>>

\* The members of a batch that get a computation of their own
MembersWithFuture(batch) ==
    {i \in 1..Len(batch.items) :
       batch.items[i].type \in
         {"Request", "Notification", "UnmatchedSub", "Batch"}}

Count(seq, x) == Cardinality({i \in 1..Len(seq) : seq[i] = x})

\* The finished computations of the members of the batch at path
MemberEntries(path) == {x \in log : Front(x.path) = path}

\* C5: the batch's own result is made only once every member's computation is
\* finished; it is no message at all when no member produced a reply, and
\* otherwise one Batch holding exactly the members' replies, each once.  At top
\* level exactly the results that are messages are emitted.
C5_BatchReply ==
    /\ \A e \in log :
         e.kind = "collect" =>
            LET replies == {x \in MemberEntries(e.path) : x.reply # NoMsg} IN
            /\ {x.path[Len(x.path)] : x \in MemberEntries(e.path)}
                 = MembersWithFuture(e.src)
            /\ \A f \in Unfinished : ~IsProperPrefix(e.path, f.path)
            /\ IF replies = {}
               THEN e.reply = NoMsg
               ELSE /\ e.reply.type = "Batch"
                    /\ Len(e.reply.items) = Cardinality(replies)
                    /\ \A x \in replies :
                         Count(e.reply.items, x.reply) =
                           Cardinality({y \in replies : y.reply = x.reply})
    /\ Len(sent) + (IF buffered = NoItem THEN 0 ELSE 1) =
         Cardinality({e \in log : Len(e.path) = 1 /\ e.reply # NoMsg})

\* C5 witness: inside one batch, the batch whose members produced no reply got
\* no message, the batch whose member replied got a Batch of that reply, and
\* the only message written is a Batch of the two replies made at the top
C5_Witness ==
    /\ inbound = <<ParsedOk(BatchNested)>>
    /\ \E e \in log :
         e.kind = "collect" /\ e.path = <<1, 1>> /\ e.reply = NoMsg
    /\ \E e \in log :
         /\ e.kind = "collect"
         /\ e.path = <<1, 2>>
         /\ e.reply.type = "Batch"
         /\ Len(e.reply.items) = 1
    /\ Unfinished = {}
    /\ Len(sent) = 1
    /\ sent[1].type = "Batch"
    /\ Len(sent[1].items) = 2

\* C6: the batch of one valid request and one malformed member is answered by
\* one Batch of exactly two members, the error -32600 for the malformed member
\* and the reply to the request, whatever became of the request.
C6_MixedBatch ==
    \A e \in log :
        (e.kind = "collect" /\ e.src = BatchMixed) =>
            /\ e.reply.type = "Batch"
            /\ Len(e.reply.items) = 2
            /\ \E i \in {1, 2} :
                 /\ IsErrorReply(e.reply.items[i], -32600)
                 /\ IsResponse(e.reply.items[3 - i])
                 /\ \E x \in log :
                      /\ x.path = Append(e.path, 1)
                      /\ x.src = ReqAdd
                      /\ x.reply = e.reply.items[3 - i]

\* C6 witness: the request of the batch failed, and the Batch reply with both
\* members was written
C6_Witness ==
    /\ \E x \in log :
         x.path = <<1, 1>> /\ x.src = ReqAdd /\ x.outcome.tag = "Err"
    /\ \E e \in log : e.path = <<1>> /\ e.src = BatchMixed
    /\ Len(sent) >= 1
    /\ sent[1].type = "Batch"
    /\ Len(sent[1].items) = 2

\* C7: at most 4 dispatch computations are in flight at any moment.
C7_WindowBound == Cardinality(window) <= 4

\* C7 witness: four computations are in flight and a fifth is waiting
C7_Witness ==
    /\ Cardinality(window) = 4
    /\ cur # <<>>

\* C9: an inbound Response gets no computation, produces no outbound message
\* and causes no server invocation.
C9_ResponseIgnored ==
    /\ \A leaf \in DispatchedLeaves :
         leaf.msg.type = "Response" =>
            /\ \A f \in Unfinished : f.path # leaf.path
            /\ \A e \in log : e.path # leaf.path
    /\ \A m \in Outbound :
         \E e \in log : e.reply = m /\ e.src.type # "Response"
    /\ Len(invoked) =
         Cardinality({leaf \in DispatchedLeaves :
                        leaf.msg.type \in {"Request", "Notification"}})

\* C9 witness: a Response was dispatched and then a request, and only the
\* request was answered
C9_Witness ==
    /\ Len(inbound) = 2
    /\ inbound[1] = ParsedOk(RespStray)
    /\ inbound[2] = ParsedOk(ReqAdd)
    /\ dispatched = 2
    /\ Unfinished = {}
    /\ invoked = <<ServerCall("rpc", "add", "args")>>
    /\ Len(sent) = 1

\* The window holds 4 computations that are all still pending
WindowStuck == Cardinality({f \in window : ~FutureReady(f)}) >= 4

\* The top-level item n has been dispatched into the window
InFlight(n) ==
    \/ \E f \in window : f.path = <<n>>
    \/ \E e \in log : e.path = <<n>>

\* The computation of the top-level request n has completed in the window
Completed(n) ==
    \E f \in window :
        f.path = <<n>> /\ f.src.type = "Request" /\ FutureReady(f)

\* The reply of the top-level item n has been written to the sink
Transmitted(n) ==
    /\ \E e \in log : e.path = <<n>> /\ e.reply # NoMsg
    /\ buffered.from # <<n>>

\* C8: a pending computation does not stall an independent request: a request
\* that has arrived gets its computation started unless the window stays filled
\* with 4 pending computations, and once its computation completes its reply is
\* transmitted, whatever became of the requests before it.
C8_NoStall ==
    \A n \in 1..MaxInbound :
        /\ (n <= arrived /\ inbound[n].val.type = "Request")
             ~> (InFlight(n) \/ []WindowStuck)
        /\ Completed(n) ~> Transmitted(n)

\* C8 witness: the reply of the second request is written while the
\* computation of the first is still pending
C8_Witness ==
    /\ Len(inbound) = 2
    /\ inbound[1] = ParsedOk(ReqAdd)
    /\ inbound[2] = ParsedOk(ReqAdd)
    /\ \E f \in window : f.path = <<1>> /\ f.outcome = Pending
    /\ Transmitted(2)
    /\ Len(sent) = 1

\* C10: every call has registered an entry of the correlation table under an
\* id of its own and resolves once, with the Response of that id or with a
\* timeout, which removes the entry.
C10_CallRegistersAndResolves ==
    /\ ~panicked
    /\ \A i \in 1..Len(calls) :
         /\ calls[i].state \in {"pending", "resolved", "timedout"}
         /\ calls[i].state = "pending" => calls[i].id \in DOMAIN idmap

\* C11: a notify enqueues exactly one Notification with its method and params
\* at the end of the client's outbound channel, leaves the correlation table
\* alone and leaves the handle usable (nothing panics, nothing else changes
\* hands).
C11_NotifyEnqueues ==
    [][notified' # notified =>
         /\ notified' = notified + 1
         /\ \E m \in NotifyMethods : \E p \in NotifyParams :
              clientQ' = Append(clientQ, Notification(m, p))
         /\ idmap' = idmap
         /\ calls' = calls
         /\ ~panicked'
         /\ sent' = sent
         /\ buffered' = buffered]_vars

\* C11 witness: the notification given to notify was accepted by the channel,
\* taken by the task and written to the sink, with the table still empty
C11_Witness ==
    /\ notified = 1
    /\ clientQ = <<>>
    /\ \E i \in 1..Len(sent) : sent[i] = Notification("ping", "arg")
    /\ idmap = {}
    /\ ~panicked

\* A step in which Line::decode was called
DecodeStep == Len(decoded') = Len(decoded) + 1

HasNewline(buf) == \E i \in 1..Len(buf) : buf[i] = Newline

\* The index of the first newline byte of a buffer that has one
FirstNewline(buf) ==
    CHOOSE i \in 1..Len(buf) :
        /\ buf[i] = Newline
        /\ \A j \in 1..(i - 1) : buf[j] # Newline

\* C12: a decode removes from the buffer exactly the bytes up to and including
\* the first newline and yields an item; on a buffer without a newline it
\* yields no item and leaves the buffer as it is.
C12_DecodeFrame ==
    [][DecodeStep =>
         IF HasNewline(rbuf)
         THEN /\ rbuf' = SubSeq(rbuf, FirstNewline(rbuf) + 1, Len(rbuf))
              /\ decoded'[Len(decoded')] # NoMsg
         ELSE /\ rbuf' = rbuf
              /\ decoded'[Len(decoded')] = NoMsg]_vars

\* C12 witness: of two complete records received, the first decode gave the
\* first and the second decode gave the second and emptied the buffer
C12_Witness ==
    /\ decoded = <<NotifBare, Request("add", Absent, JNum(1))>>
    /\ incoming = <<>>
    /\ rbuf = <<>>
    /\ toSend = <<>>

\* C13: a line that is not valid JSON is decoded as the SyntaxError marker, an
\* item like any other, and the line is consumed with its newline, so that
\* the records after it are what later decodes work on.
C13_SyntaxErrorRecovered ==
    [][(DecodeStep /\ HasNewline(rbuf)) =>
         LET line == SubSeq(rbuf, 1, FirstNewline(rbuf) - 1) IN
         ~ParseValue(line).ok \/ ParseValue(line).rest # <<>> =>
            /\ decoded'[Len(decoded')] = MessageSyntaxError
            /\ rbuf' = SubSeq(rbuf, FirstNewline(rbuf) + 1, Len(rbuf))]_vars

\* C13 witness: the malformed record {] was decoded as the marker, and the
\* record behind it was decoded as the notification it is
C13_Witness ==
    /\ decoded = <<MessageSyntaxError, NotifBare>>
    /\ incoming = <<>>
    /\ rbuf = <<>>
    /\ toSend = <<>>

\* C14: encoding a Request, a Response, a Notification or a Batch of these
\* and decoding the bytes produced gives back a Message equal to the one
\* encoded: whatever a decode yields from such bytes is one of the messages
\* that were encoded.
C14_RoundTrip ==
    \A i \in 1..Len(decoded) :
        (toSend # <<>> /\ decoded[i] # NoMsg) =>
            \E k \in 1..encoded : decoded[i] = toSend[k]

\* A step in which Line::encode was called
EncodeStep == encoded' = encoded + 1

\* C15: after an encode the buffer holds exactly the compact JSON text of the
\* message and one newline byte after it, whatever it held before; the
\* notification without params is written as {"jsonrpc":"2.0","method":"notif"}
\* with no params key.
C15_EncodeOverwrites ==
    [][EncodeStep =>
         LET msg == toSend[encoded'] IN
         /\ wbuf' = to_vec(msg) \o <<Newline>>
         /\ \A i \in 1..Len(wbuf') : wbuf'[i] = Newline <=> i = Len(wbuf')
         /\ msg = NotifBare =>
              /\ wbuf' = MsgString
              /\ \A i \in 1..Len(wbuf') : wbuf'[i] # S("params")]_vars

\* C15 witness: the notification without params was encoded into a buffer that
\* still held the line of a request, and the buffer holds the notification's
\* line alone
C15_Witness ==
    /\ toSend = <<RequestAdd, NotifBare>>
    /\ encoded = 2
    /\ incoming = <<>>
    /\ rbuf = <<>>
    /\ wbuf = MsgString

\* C16: the conversion of a JSON value takes the first of Request, Response,
\* Notification and Batch that the value matches, whether or not a later one
\* matches too, and a value that matches none becomes Unmatched around the
\* value as it was.
C16_FirstMatchWins ==
    [][(DecodeStep /\ HasNewline(rbuf)) =>
         LET line == SubSeq(rbuf, 1, FirstNewline(rbuf) - 1)
             v == ParseValue(line).val
             item == decoded'[Len(decoded')]
         IN (ParseValue(line).ok /\ ParseValue(line).rest = <<>>) =>
              CASE DeRequest(v).ok -> item = DeRequest(v).val
                [] ~DeRequest(v).ok /\ DeResponse(v).ok ->
                     item = DeResponse(v).val
                [] ~DeRequest(v).ok /\ ~DeResponse(v).ok
                     /\ DeNotification(v).ok ->
                     item = DeNotification(v).val
                [] OTHER ->
                     IF IsArr(v)
                     THEN item.type = "Batch" /\ Len(item.items) = Len(v.arr)
                     ELSE item = MessageUnmatched(v)]_vars

\* C16 witness: a record that has the shape of a Request and of a Notification
\* was converted to the Request, and a record of no shape to Unmatched around
\* its value
C16_Witness ==
    /\ DeNotification(ParseValue(SubSeq(RequestLine, 1,
                                        Len(RequestLine) - 1)).val).ok
    /\ decoded = <<Request("add", Absent, JNum(1)),
                   MessageUnmatched(JObj([id |-> JNum(1),
                                          result |-> JNum(5)]))>>
    /\ incoming = <<>>
    /\ rbuf = <<>>
    /\ toSend = <<>>

\* No result that a batch member has ready for its batch finds the channel of
\* the batch full
NoSendBlocks ==
    \A f \in window :
        (FutureReady(f) /\ FutureResult(f) # NoMsg /\ Dest(f) # <<>>) =>
            Len(chans[Dest(f)].buf) < chans[Dest(f)].cap

\* The aggregation of a batch is in the window only when every computation of
\* its members has been admitted before it
NoCollectBeforeMembers ==
    \A f \in window :
        f.kind = "collect" =>
            \A g \in Range(cur) : ~IsProperPrefix(f.path, g.path)

\* The batch that is the top-level item n has been aggregated, the batches in
\* it included
Aggregated(n) ==
    /\ \E e \in log : e.kind = "collect" /\ e.path = <<n>>
    /\ \A f \in Unfinished : f.path # <<n>> /\ ~IsProperPrefix(<<n>>, f.path)

\* C17: when every server computation eventually completes, the aggregation of
\* every dispatched batch eventually completes, whatever its width and
\* nesting: no send of a member's result finds the channel full, and no
\* aggregation waits in the window for a computation still outside it.
C17_BatchCompletes ==
    /\ [](NoSendBlocks /\ NoCollectBeforeMembers)
    /\ (dispatched >= 1) ~> Aggregated(1)

\* C17 witness: a batch of 5 members, one more than the window holds, has been
\* aggregated after all 5 computations finished
C17_Witness ==
    /\ inbound = <<ParsedOk(WideBatch(5))>>
    /\ Aggregated(1)
    /\ Cardinality(MemberEntries(<<1>>)) = 5
    /\ \E e \in log :
         e.path = <<1>> /\ e.reply.type = "Batch" /\ Len(e.reply.items) = 3

\* The multiset of the elements of a sequence
BagOfSeq(seq) == [x \in Range(seq) |-> Count(seq, x)]

\* The multiset of the replies of the finished members of the batch at path
BagOfReplies(path) ==
    LET replies == {x \in MemberEntries(path) : x.reply # NoMsg} IN
    [r \in {x.reply : x \in replies} |->
        Cardinality({x \in replies : x.reply = r})]

\* C18: in whatever order the computations of a batch's members complete, the
\* batch's reply is made only when all of them have completed, a Batch written
\* to the sink is the reply of a finished batch, and the items of the reply
\* are, as a multiset, the replies of the members: only their positions depend
\* on the order of completion.
C18_BatchInterleavings ==
    /\ \A e \in log :
         e.kind = "collect" =>
            /\ \A i \in MembersWithFuture(e.src) :
                 \E x \in log : x.path = Append(e.path, i)
            /\ \A f \in Unfinished : ~IsProperPrefix(e.path, f.path)
            /\ BagOfSeq(IF e.reply = NoMsg THEN <<>> ELSE e.reply.items)
                 = BagOfReplies(e.path)
    /\ \A m \in Outbound :
         m.type = "Batch" =>
            \E e \in log : e.kind = "collect" /\ e.reply = m

\* C18 witness: the members completed in an order other than the order of the
\* batch: the reply of the last member is the first item of the Batch reply
\* that was written, the reply of the second member the last
C18_Witness ==
    /\ inbound = <<ParsedOk(BatchNested)>>
    /\ Len(sent) = 1
    /\ sent[1].type = "Batch"
    /\ Len(sent[1].items) = 2
    /\ \E x \in log : x.path = <<1, 3>> /\ x.reply = sent[1].items[1]
    /\ \E x \in log : x.path = <<1, 2>> /\ x.reply = sent[1].items[2]

\* C19: an error of the inbound stream or of the sink ends the task; from then
\* on nothing is written to the sink or handed to it, and no computation's
\* result is taken any more, also when the computation completes afterwards.
C19_ErrorTerminates ==
    /\ [](fault # "none" => task = "failed")
    /\ [][task = "failed" =>
            /\ task' = "failed"
            /\ sent' = sent
            /\ buffered' = buffered
            /\ log' = log
            /\ chans' = chans]_vars

\* C19 witness: the sink failed with a computation in flight; the computation
\* has completed with a result that would be a reply, and nothing was written
C19_Witness ==
    /\ task = "failed"
    /\ fault = "sink"
    /\ sent = <<>>
    /\ \E f \in window :
         /\ f.kind = "rpc"
         /\ f.outcome # Pending
         /\ FutureResult(f) # NoMsg

\* The client's notifications written to the sink
ClientSent == Cardinality({i \in 1..Len(sent) : sent[i].type = "Notification"})

\* Both sides of select have ended
StreamsEnded ==
    /\ eof
    /\ dispatched = arrived
    /\ cur = <<>>
    /\ window = {}
    /\ ~clientAlive
    /\ clientQ = <<>>

\* C20: without errors the task ends only when the inbound stream has ended
\* with every computation finished and the client's channel is closed and
\* drained, with nothing left unsent, and then it does end; while a Client
\* handle is alive the task keeps running, also after the end of the inbound
\* stream, and every message sent through the handle is written to the sink.
C20_TaskTermination ==
    /\ [](task = "done" => StreamsEnded /\ buffered = NoItem)
    /\ []((clientAlive \/ ~eof) => task = "running")
    /\ StreamsEnded ~> (task = "done")
    /\ \A k \in 1..MaxNotify : (notified >= k) ~> (ClientSent >= k)

\* C20 witness: the inbound stream has ended with its request answered, the
\* task is still running for the Client handle, and the notification sent
\* through the handle was written after the reply
C20_Witness ==
    /\ eof
    /\ inbound = <<ParsedOk(ReqAdd)>>
    /\ window = {}
    /\ clientAlive
    /\ task = "running"
    /\ Len(sent) = 2
    /\ sent[1].type = "Response"
    /\ sent[2] = Notification("ping", "arg")

\* The lines of the first n messages given to Line::encode, in call order
LinesOf(n) ==
    Concat([k \in 1..n |-> Append(to_vec(toSend[k]), Newline)])

\* C21: as long as the transport has taken nothing out of the output buffer,
\* the buffer holds the line of every message Line::encode was called for, in
\* call order: a later encode loses no record that is not yet written.
C21_EncodeKeepsUnwritten ==
    (incoming = <<>> /\ rbuf = <<>> /\ decoded = <<>>) =>
        wbuf = LinesOf(encoded)

\* select hands an answer of the engine to send_all
YieldAnswer ==
    /\ log' # log
    /\ \E e \in log' \ log : Len(e.path) = 1 /\ e.reply # NoMsg

\* select hands a message of the Client to send_all
YieldClient == clientQ # <<>> /\ clientQ' = Tail(clientQ)

\* C22: neither side of the merge starves the other.  Given that the task
\* keeps being polled and the sink accepts what it is offered again, every
\* message the client's channel accepted is written to the sink and every reply
\* the engine produced is written to the sink; and the two sides take turns: an
\* answer is not taken while a Client message waits that select is to poll
\* first, a Client message is taken ahead of its turn only when no answer is
\* ready, and each side hands the turn to the other.
C22_NoStarvation ==
    /\ \A k \in 1..MaxMerge : (notified >= k) ~> (ClientSent >= k)
    /\ \A n \in 1..MaxInbound : Completed(n) ~> Transmitted(n)
    /\ [][YieldAnswer => (flag' /\ (flag => clientQ = <<>>))]_vars
    /\ [][YieldClient => (~flag' /\ (~flag => AnswersIdle))]_vars

\* C22 witness: a Client message and then a reply were written, and both
\* sides have more: another reply is ready in the window, another Client
\* message waits in the channel, and select is to poll the receiver first
C22_Witness ==
    /\ Len(sent) = 2
    /\ sent[1].type = "Notification"
    /\ sent[2].type = "Response"
    /\ buffered = NoItem
    /\ flag
    /\ clientQ # <<>>
    /\ \E f \in window : CanYield(f)

====
